---- MODULE Spec2Model ----
(***************************************************************************)
(* The embedding backfill pipeline and vector search of fooddb             *)
(* (src/fooddb/embeddings.py, started from src/fooddb/cli.py).             *)
(*                                                                         *)
(* The vector table food_embeddings is a table of rows (rowid, embedding); *)
(* store[id] is the sequence of embeddings held under rowid id.  Every     *)
(* call of process_embedding_batch works on its own connection; SQLite     *)
(* admits one write transaction at a time, so at most one call holds       *)
(* uncommitted rows.  Elapsed time of a run is kept as the ceiling of      *)
(* time.time() - start_time in seconds: timeout is an int, so              *)
(* "elapsed > timeout" is decided exactly by that ceiling.                 *)
(***************************************************************************)
EXTENDS Integers, Sequences, FiniteSets, TLC

\* ---- bounds of the model ------------------------------------------------
NumFoods == 5        \* catalog size (rows of table food)
ApiBatchSize == 2    \* stands for api_batch_size = 100 (embeddings.py:332)
MaxBatchSize == 5    \* largest batch_size (fetch window) a run is given
MaxParallel == 2     \* largest worker count a run is given
MaxTimeout == 1      \* largest timeout (seconds) a run is given
MaxRuns == 2         \* runs started one after the other (SpecRerun)
RerunFoods == 3      \* catalog size where runs follow one another (SpecRerun)
TwoFoods == 2        \* catalog size where two runs overlap (SpecTwo)
FairFoods == 3       \* catalog size where termination is checked (SpecFair)
MaxCallerWrites == 1 \* store_embedding calls beside a run (SpecFair)
SearchFoods == 2     \* catalog size where searches are checked (SpecSearch)
MaxVector == 2       \* largest stored vector and query text (SpecSearch)
MaxLimit == 2        \* largest limit a search is given (SpecSearch)
MaxStoreCalls == 2   \* store_embedding calls of each kind (SpecStore)

MaxSub == (MaxBatchSize + ApiBatchSize - 1) \div ApiBatchSize

RunIds == {1, 2}
SubIds == 1..MaxSub
FoodIds == 1..NumFoods
Rowids == 1..(NumFoods + 1)
Models == {1, 2}

VARIABLES
    env,      \* the deployment: is the provider client configured, which run slots are used
    food,     \* table food: fdc_id -> description
    store,    \* table food_embeddings: rowid -> sequence of embeddings under that rowid
    run,      \* per run slot: the frame of generate_batch_embeddings
    calls,    \* per run slot and sub-batch: the frame of process_embedding_batch
    lastWrite,\* rowid -> the embedding of the latest committed write (0: none)
    search    \* the latest search call: its arguments and the list it returned

vars == <<env, food, store, run, calls, lastWrite, search>>

\* ---- helpers --------------------------------------------------------------
Min(a, b) == IF a <= b THEN a ELSE b
Max(a, b) == IF a >= b THEN a ELSE b
Ceil(a, b) == (a + b - 1) \div b
SeqToSet(s) == {s[j] : j \in 1..Len(s)}

RECURSIVE Ascending(_)
Ascending(S) ==
    IF S = {} THEN <<>>
    ELSE LET m == CHOOSE x \in S : \A y \in S : x <= y
         IN <<m>> \o Ascending(S \ {m})

TakeAll(s, n) == s
Take(s, n) == SubSeq(s, 1, Min(n, Len(s)))

\* ---- the catalog and the provider -----------------------------------------
Description(id) == 10 * id

\* client.embeddings.create: the vector of one text under one model
Embed(text, model) == text + model

\* ---- the vector table -----------------------------------------------------
EmptyTable == [id \in Rowids |-> <<>>]

\* INSERT OR REPLACE INTO food_embeddings (rowid, embedding) VALUES (?, ?)
InsertOnly(tbl, id, v) == [tbl EXCEPT ![id] = Append(@, v)]
InsertOrReplace(tbl, id, v) == [tbl EXCEPT ![id] = <<v>>]

\* cursor.executemany over values_to_insert, a sequence of <<rowid, embedding>>
RECURSIVE ExecuteMany(_, _)
ExecuteMany(tbl, vals) ==
    IF vals = <<>> THEN tbl
    ELSE ExecuteMany(InsertOrReplace(tbl, vals[1][1], vals[1][2]), Tail(vals))

\* COMMIT / conn.rollback(): committed is the table before the transaction,
\* working the table as the transaction sees it
Commit(committed, working) == working
RollbackKeepsWrites(committed, working) == working
Rollback(committed, working) == committed

\* close_db(conn): conn.close() commits nothing; the rows a connection wrote
\* and did not commit are gone
CloseDb(committed, working) == committed

\* DROP TABLE IF EXISTS food_embeddings; CREATE VIRTUAL TABLE food_embeddings
SetupVectorDb(tbl) == EmptyTable

\* WHERE NOT EXISTS (SELECT 1 FROM food_embeddings fe WHERE fe.rowid = f.fdc_id)
MissingIds(f, tbl) == {id \in DOMAIN f : tbl[id] = <<>>}

\* SELECT COUNT(f.fdc_id) FROM food f WHERE NOT EXISTS (...)
CountAllFoods(f, tbl) == Cardinality(DOMAIN f)
CountMissing(f, tbl) == Cardinality(MissingIds(f, tbl))

\* SELECT f.fdc_id, f.description FROM food f WHERE NOT EXISTS (...) LIMIT ?
SelectMissing(f, tbl, limit) == Take(Ascending(MissingIds(f, tbl)), limit)

\* ---- generate_batch_embeddings: pure parts ---------------------------------
\* if time.time() - start_time > timeout
DeadlineNever(elapsed, timeout) == FALSE
DeadlineLate(elapsed, timeout) == elapsed > timeout + 1
DeadlineExceeded(elapsed, timeout) == elapsed > timeout

\* if not client
ClientAlways(c) == TRUE
ClientConfigured(c) == c

\* foods[i:i+api_batch_size], k-th slice (k from 1)
SubBatchOffByOne(foods, k) ==
    SubSeq(foods, (k - 1) * ApiBatchSize + 1, Min(k * ApiBatchSize - 1, Len(foods)))
SubBatch(foods, k) ==
    SubSeq(foods, (k - 1) * ApiBatchSize + 1, Min(k * ApiBatchSize, Len(foods)))
NumBatches(foods) == Ceil(Len(foods), ApiBatchSize)

\* batches = [foods[i:i+api_batch_size] for i in range(0, len(foods), api_batch_size)]
Batches(foods) == [k \in 1..NumBatches(foods) |-> SubBatch(foods, k)]

\* values_to_insert for a response of n vectors: (fdc_ids[j], embedding of texts[j])
ValuesToInsertSwapped(f, batch, n, model) ==
    [j \in 1..n |-> <<batch[j], Embed(f[batch[n + 1 - j]], model)>>]
ValuesToInsertShifted(f, batch, n, model) ==
    [j \in 1..n |-> <<batch[j] + 1, Embed(f[batch[j]], model)>>]
ValuesToInsert(f, batch, n, model) ==
    [j \in 1..n |-> <<batch[j], Embed(f[batch[j]], model)>>]

\* ---- state ----------------------------------------------------------------
\* conn: the call's own connection (connect_db at line 212) is open
NoCall == [st |-> "none", n |-> 0, res |-> 0, err |-> FALSE, seen |-> FALSE,
           conn |-> FALSE]
NoCalls == [k \in SubIds |-> NoCall]

IdleRun ==
    [pc |-> "idle", batch_size |-> 0, parallel |-> 0, timeout |-> 0, model |-> 1,
     e |-> 0, total_missing |-> 0, total_processed |-> 0, foods |-> <<>>, i |-> 0,
     waitFrom |-> 0, outcome |-> "none", connOpen |-> FALSE, opened |-> FALSE,
     runNo |-> 0, counted |-> 0, didSelect |-> FALSE, attempted |-> {}, submitted |-> {},
     anyFail |-> FALSE, timedOut |-> FALSE, dispatched |-> 0,
     store0 |-> EmptyTable, gained |-> {}, prior |-> {}, pool |-> 0]

\* the table after earlier, completed backfills of the identifiers in S
Embedded(S, model) ==
    [id \in Rowids |-> IF id \in S THEN <<Embed(Description(id), model)>> ELSE <<>>]
NoWrites == [id \in Rowids |-> 0]

\* called: the provider was called; opened: a connection was opened; queried:
\* the KNN query was issued; completed: its rows were fetched and returned
\* tool: the frame of semantic_food_search (server.py) around the search
NoTool == [query |-> 0, limit |-> 0, calls |-> <<>>, known |-> {}, failed |-> FALSE,
           foods |-> <<>>, raised |-> FALSE]
NoSearch == [op |-> "none", qv |-> 0, limit |-> 0, result |-> <<>>,
             raised |-> FALSE, called |-> FALSE, opened |-> FALSE,
             queried |-> FALSE, completed |-> FALSE, tool |-> NoTool]

Catalog(n) == [id \in 1..n |-> Description(id)]

InitCommon ==
    /\ run = [r \in RunIds |-> IdleRun]
    /\ calls = [r \in RunIds |-> NoCalls]
    /\ lastWrite = NoWrites
    /\ search = NoSearch

\* what a deployment allows its callers: the run slots in use, the runs per
\* slot, and the arguments a run may be given (models: per slot)
\* stored: the latest call of store_embedding by a caller: its arguments
\* (own: it was given no connection) and how it returned
NoStored == [id |-> 0, v |-> 0, own |-> FALSE, returned |-> "none"]
Deployment(c, slots, runs, models, sizes, timeouts, writes, searches) ==
    [client |-> c, slots |-> slots, runs |-> runs, models |-> models,
     sizes |-> sizes, pars |-> 1..MaxParallel, timeouts |-> timeouts,
     writes |-> writes, searches |-> searches, faults |-> 0, stored |-> NoStored]

\* one run slot, one run; the table starts empty, partly filled or complete
Init ==
    /\ InitCommon
    /\ food = Catalog(NumFoods)
    /\ store \in {Embedded(S, 1) : S \in {{}, {1}, FoodIds}}
    /\ \E c \in BOOLEAN :
         env = Deployment(c, {1}, 1, [r \in RunIds |-> {1}],
                          1..MaxBatchSize, 0..MaxTimeout, 0, {})

\* a call that holds the write transaction (rows written, not yet committed)
WriteLocked == \E r \in RunIds, k \in SubIds : calls[r][k].st = "inserted"

Executing(r) == {k \in SubIds : calls[r][k].st \in {"running", "inserted"}}
Finished(r, k) == calls[r][k].st \in {"done", "raised"}
Used(r) == {k \in SubIds : calls[r][k].st # "none"}

\* the run ends: close_db(conn), control returns to the caller
Ended(how, R) ==
    [R EXCEPT !.pc = "done", !.outcome = how, !.connOpen = FALSE]

Bump(d, n) == Min(d + n, Cardinality(DOMAIN food) + 1)

\* ---- generate_batch_embeddings ---------------------------------------------
\* The caller starts a run: directly, or through the generate-embeddings
\* command (cli.py), which runs setup_vector_db first.  start_time is read,
\* the client is checked, the run's own connection is opened.
NewRun(r, bs, par, to, m, tbl) ==
    [IdleRun EXCEPT !.batch_size = bs, !.parallel = par, !.timeout = to, !.model = m,
                    !.runNo = run[r].runNo + 1, !.store0 = tbl,
                    !.prior = run[r].prior \cup run[r].gained]

RunStart(r, bs, par, to, m, cli) ==
    /\ r \in env.slots
    /\ m \in env.models[r] /\ bs \in env.sizes /\ par \in env.pars /\ to \in env.timeouts
    /\ run[r].pc \in {"idle", "done"}
    /\ run[r].runNo < env.runs
    /\ cli => ~WriteLocked
    /\ LET tbl == IF cli THEN SetupVectorDb(store) ELSE store
           R == NewRun(r, bs, par, to, m, tbl)
       IN /\ store' = tbl
          /\ lastWrite' = IF cli THEN NoWrites ELSE lastWrite
          /\ run' = [run EXCEPT ![r] =
                 IF ~ClientConfigured(env.client) THEN Ended("noop", R)
                 ELSE [R EXCEPT !.pc = "count", !.connOpen = TRUE, !.opened = TRUE]]
    /\ UNCHANGED <<env, food, calls, search>>

\* connect_db(db_path) at line 301 raises: nothing catches it
RunStartFail(r, bs, par, to, m) ==
    /\ r \in env.slots
    /\ m \in env.models[r] /\ bs \in env.sizes /\ par \in env.pars /\ to \in env.timeouts
    /\ run[r].pc \in {"idle", "done"}
    /\ run[r].runNo < env.runs
    /\ ClientConfigured(env.client)
    /\ run' = [run EXCEPT ![r] =
           Ended("raised", [NewRun(r, bs, par, to, m, store) EXCEPT !.anyFail = TRUE,
                                                                     !.opened = TRUE])]
    /\ UNCHANGED <<env, food, store, calls, lastWrite, search>>

\* the count query; opening the database and counting take time, so the
\* elapsed time is positive from here on
RunCount(r) ==
    /\ run[r].pc = "count"
    /\ LET n == CountMissing(food, store)
           R == [run[r] EXCEPT !.total_missing = n, !.counted = @ + 1,
                               !.e = Max(@, 1)]
       IN run' = [run EXCEPT ![r] =
              IF n = 0 THEN Ended("nothing", R) ELSE [R EXCEPT !.pc = "loop"]]
    /\ UNCHANGED <<env, food, store, calls, lastWrite, search>>

\* the count query raises: except Exception at line 413
RunCountFail(r) ==
    /\ run[r].pc = "count"
    /\ run' = [run EXCEPT ![r] =
           Ended("error", [@ EXCEPT !.counted = @ + 1, !.e = Max(@, 1),
                                    !.anyFail = TRUE])]
    /\ UNCHANGED <<env, food, store, calls, lastWrite, search>>

\* the target "while total_processed < total_missing" compares with: the
\* value the count query returned at line 318
LoopTargetRecounted(R, f, tbl) == CountMissing(f, tbl)
LoopTarget(R, f, tbl) == R.total_missing

\* total_processed += success_count
AccumulateLast(total, success_count) == success_count
Accumulate(total, success_count) == total + success_count

\* ThreadPoolExecutor(max_workers=parallel): the number of pool workers
PoolUnbounded(parallel) == parallel + 1
PoolSize(parallel) == parallel

\* one pass of "while total_processed < total_missing": the deadline check,
\* the select of the next fetch window, the choice of the mode
RunLoop(r) ==
    /\ run[r].pc = "loop"
    /\ LET R == run[r]
           foods == SelectMissing(food, store, R.batch_size)
           S == [R EXCEPT !.foods = foods, !.didSelect = TRUE, !.i = 0]
       IN IF ~(R.total_processed < LoopTarget(R, food, store))
          THEN /\ run' = [run EXCEPT ![r] = Ended("report", R)]
               /\ calls' = calls
          ELSE IF DeadlineExceeded(R.e, R.timeout)
          THEN /\ run' = [run EXCEPT ![r] = Ended("report", [R EXCEPT !.timedOut = TRUE])]
               /\ calls' = calls
          ELSE IF foods = <<>>
          THEN /\ run' = [run EXCEPT ![r] = Ended("report", S)]
               /\ calls' = calls
          ELSE IF R.parallel <= 1
          THEN /\ run' = [run EXCEPT ![r] = [S EXCEPT !.pc = "seq"]]
               /\ calls' = calls
          ELSE /\ run' = [run EXCEPT ![r] =
                      [S EXCEPT !.pc = "par", !.waitFrom = R.e,
                                !.pool = PoolSize(R.parallel),
                                !.dispatched = Bump(@, NumBatches(foods))]]
               /\ calls' = [calls EXCEPT ![r] =
                      [k \in SubIds |->
                         IF k <= NumBatches(foods)
                         THEN [NoCall EXCEPT !.st = "queued"] ELSE NoCall]]
    /\ UNCHANGED <<env, food, store, lastWrite, search>>

\* the select raises: except Exception at line 413
RunSelectFail(r) ==
    /\ run[r].pc = "loop"
    /\ run[r].total_processed < LoopTarget(run[r], food, store)
    /\ ~DeadlineExceeded(run[r].e, run[r].timeout)
    /\ run' = [run EXCEPT ![r] =
           Ended("error", [@ EXCEPT !.didSelect = TRUE, !.anyFail = TRUE])]
    /\ UNCHANGED <<env, food, store, calls, lastWrite, search>>

\* the clock: one more second of the run has begun (followed until the
\* deadline has passed: later readings decide every check the same way)
Tick(r) ==
    /\ run[r].pc \notin {"idle", "done"}
    /\ run[r].e <= run[r].timeout
    /\ run' = [run EXCEPT ![r].e = @ + 1]
    /\ UNCHANGED <<env, food, store, calls, lastWrite, search>>

\* ---- sequential mode (parallel <= 1) ---------------------------------------
SeqSlot(R) == R.i \div ApiBatchSize + 1

\* for i in range(0, len(foods), api_batch_size): the deadline check, then the
\* call of process_embedding_batch, which opens its connection
SeqStep(r) ==
    /\ run[r].pc = "seq"
    /\ LET R == run[r]
           k == SeqSlot(R)
       IN IF ~(R.i < Len(R.foods))
          THEN /\ run' = [run EXCEPT ![r].pc = "loop"]
               /\ calls' = calls
          ELSE IF DeadlineExceeded(R.e, R.timeout)
          THEN /\ run' = [run EXCEPT ![r].pc = "loop", ![r].timedOut = TRUE]
               /\ calls' = calls
          ELSE /\ run' = [run EXCEPT ![r].pc = "seqcall",
                             ![r].dispatched = Bump(@, 1),
                             ![r].attempted = @ \cup SeqToSet(SubBatch(R.foods, k)),
                             ![r].submitted = @ \cup SeqToSet(SubBatch(R.foods, k))]
               /\ calls' = [calls EXCEPT ![r][k] =
                      [NoCall EXCEPT !.st = "running", !.conn = TRUE]]
    /\ UNCHANGED <<env, food, store, lastWrite, search>>

\* connect_db at line 212 raises inside the synchronous call: the exception
\* leaves process_embedding_batch and the loop, and lands at line 413
SeqConnectFail(r) ==
    /\ run[r].pc = "seq"
    /\ run[r].i < Len(run[r].foods)
    /\ ~DeadlineExceeded(run[r].e, run[r].timeout)
    /\ run' = [run EXCEPT ![r] =
           Ended("error", [@ EXCEPT !.dispatched = Bump(@, 1), !.anyFail = TRUE,
                  !.attempted = @ \cup SeqToSet(SubBatch(run[r].foods, SeqSlot(run[r])))])]
    /\ UNCHANGED <<env, food, store, calls, lastWrite, search>>

\* the call returned: total_processed += success_count
SeqReturn(r) ==
    /\ run[r].pc = "seqcall"
    /\ LET k == SeqSlot(run[r])
       IN /\ calls[r][k].st = "done"
          /\ run' = [run EXCEPT ![r].pc = "seq",
                        ![r].total_processed = Accumulate(@, calls[r][k].res),
                        ![r].i = @ + ApiBatchSize]
          /\ calls' = [calls EXCEPT ![r][k] = NoCall]
    /\ UNCHANGED <<env, food, store, lastWrite, search>>

\* ---- process_embedding_batch ------------------------------------------------
\* finally: close_db(conn), on every path out of the try block
FinallyOnSuccess(c) == IF c.err THEN c ELSE [c EXCEPT !.conn = FALSE]
Finally(c) == [c EXCEPT !.conn = FALSE]

Batch(r, k) == SubBatch(run[r].foods, k)
Values(r, k, n) == ValuesToInsert(food, Batch(r, k), n, run[r].model)

\* a free pool worker takes the next queued task (FIFO) and opens its connection
PebStart(r, k) ==
    /\ run[r].pc \in {"par", "parexit"}
    /\ calls[r][k].st = "queued"
    /\ \A j \in SubIds : j < k => calls[r][j].st # "queued"
    /\ Cardinality(Executing(r)) < run[r].pool
    /\ calls' = [calls EXCEPT ![r][k].st = "running", ![r][k].conn = TRUE]
    /\ run' = [run EXCEPT ![r].attempted = @ \cup SeqToSet(Batch(r, k)),
                  ![r].submitted = @ \cup SeqToSet(Batch(r, k))]
    /\ UNCHANGED <<env, food, store, lastWrite, search>>

\* connect_db at line 212 raises in a pool worker: the future holds the exception
PebStartFail(r, k) ==
    /\ run[r].pc \in {"par", "parexit"}
    /\ calls[r][k].st = "queued"
    /\ \A j \in SubIds : j < k => calls[r][j].st # "queued"
    /\ Cardinality(Executing(r)) < run[r].pool
    /\ calls' = [calls EXCEPT ![r][k].st = "raised", ![r][k].err = TRUE]
    /\ run' = [run EXCEPT ![r].anyFail = TRUE,
                  ![r].attempted = @ \cup SeqToSet(Batch(r, k))]
    /\ UNCHANGED <<env, food, store, lastWrite, search>>

\* client.embeddings.create raises: except at line 268, rollback, return 0
PebApiFail(r, k) ==
    /\ calls[r][k].st = "running"
    /\ store' = Rollback(store, store)
    /\ calls' = [calls EXCEPT ![r][k] =
           Finally([@ EXCEPT !.st = "done", !.res = 0, !.err = TRUE])]
    /\ run' = [run EXCEPT ![r].anyFail = TRUE]
    /\ UNCHANGED <<env, food, lastWrite, search>>

\* the provider answers with n vectors (n = len(batch), or fewer); BEGIN
\* TRANSACTION and executemany succeed: the rows are written, not committed
PebInsert(r, k, n) ==
    /\ calls[r][k].st = "running"
    /\ ~WriteLocked
    /\ n \in {Len(Batch(r, k)), Len(Batch(r, k)) - 1}
    /\ calls' = [calls EXCEPT ![r][k].st = "inserted", ![r][k].n = n]
    /\ run' = [run EXCEPT ![r].anyFail = @ \/ n < Len(Batch(r, k))]
    /\ UNCHANGED <<env, food, store, lastWrite, search>>

\* the bulk insert raises after j rows (the database is locked, a row is
\* refused, the response holds more vectors than the batch has identifiers):
\* except at line 256, rollback, success_count = 0
PebInsertFail(r, k, j) ==
    /\ calls[r][k].st = "running"
    /\ j \in 0..(Len(Batch(r, k)) - 1)
    /\ j > 0 => ~WriteLocked
    /\ store' = Rollback(store, ExecuteMany(store, Values(r, k, j)))
    /\ calls' = [calls EXCEPT ![r][k] =
           Finally([@ EXCEPT !.st = "done", !.res = 0, !.err = TRUE])]
    /\ run' = [run EXCEPT ![r].anyFail = TRUE]
    /\ UNCHANGED <<env, food, lastWrite, search>>

\* COMMIT succeeds: success_count = len(values_to_insert) is returned
PebCommit(r, k) ==
    /\ calls[r][k].st = "inserted"
    /\ LET vals == Values(r, k, calls[r][k].n)
       IN /\ store' = Commit(store, ExecuteMany(store, vals))
          /\ run' = [run EXCEPT ![r].gained = @ \cup {vals[j][1] : j \in 1..Len(vals)}]
          /\ lastWrite' = [id \in Rowids |->
                 IF \E j \in 1..Len(vals) : vals[j][1] = id
                 THEN vals[CHOOSE j \in 1..Len(vals) : vals[j][1] = id][2]
                 ELSE lastWrite[id]]
    /\ calls' = [calls EXCEPT ![r][k] =
           Finally([@ EXCEPT !.st = "done", !.res = calls[r][k].n])]
    /\ UNCHANGED <<env, food, search>>

\* COMMIT raises: except at line 256, rollback, success_count = 0
PebCommitFail(r, k) ==
    /\ calls[r][k].st = "inserted"
    /\ store' = Rollback(store, ExecuteMany(store, Values(r, k, calls[r][k].n)))
    /\ calls' = [calls EXCEPT ![r][k] =
           Finally([@ EXCEPT !.st = "done", !.res = 0, !.err = TRUE])]
    /\ run' = [run EXCEPT ![r].anyFail = TRUE]
    /\ UNCHANGED <<env, food, lastWrite, search>>

\* ---- parallel mode (parallel > 1) -------------------------------------------
\* as_completed yields a finished future: future.result() is added to
\* total_processed, or its exception is logged (line 405)
ParCollect(r, k) ==
    /\ run[r].pc = "par"
    /\ Finished(r, k)
    /\ ~calls[r][k].seen
    /\ calls' = [calls EXCEPT ![r][k].seen = TRUE]
    /\ run' = [run EXCEPT ![r].total_processed =
           IF calls[r][k].st = "done" THEN Accumulate(@, calls[r][k].res) ELSE @]
    /\ UNCHANGED <<env, food, store, lastWrite, search>>

\* every future was yielded: the with block is left, back to the while loop
ParDone(r) ==
    /\ run[r].pc = "par"
    /\ \A k \in Used(r) : calls[r][k].seen
    /\ run' = [run EXCEPT ![r].pc = "loop"]
    /\ calls' = [calls EXCEPT ![r] = NoCalls]
    /\ UNCHANGED <<env, food, store, lastWrite, search>>

\* as_completed(futures, timeout=remaining_timeout) raises TimeoutError: some
\* future is not yielded yet and max(1, timeout - elapsed) seconds have passed
\* since the wait began
ParTimeout(r) ==
    /\ run[r].pc = "par"
    /\ \E k \in Used(r) : ~calls[r][k].seen
    /\ run[r].e > Max(run[r].waitFrom, run[r].timeout)
    /\ run' = [run EXCEPT ![r].pc = "parexit", ![r].timedOut = TRUE]
    /\ UNCHANGED <<env, food, store, calls, lastWrite, search>>

\* ThreadPoolExecutor.__exit__: shutdown(wait=True) returns once every task
\* has run; the TimeoutError then lands at line 413
ParExit(r) ==
    /\ run[r].pc = "parexit"
    /\ \A k \in Used(r) : Finished(r, k)
    /\ run' = [run EXCEPT ![r] = Ended("error", @)]
    /\ calls' = [calls EXCEPT ![r] = NoCalls]
    /\ UNCHANGED <<env, food, store, lastWrite, search>>

\* ---- store_embedding ---------------------------------------------------------
\* embeddings a caller of store_embedding hands in
CallerVectors == {7}

\* store_embedding(fdc_id, embedding, ...): INSERT OR REPLACE on its own
\* connection (conn is None), which it closes, or on the caller's connection,
\* which the caller then commits.  The write needs the write lock.
StoreEmbedding(id, v, own) ==
    /\ env.writes > 0
    /\ env' = [env EXCEPT !.writes = @ - 1,
                          !.stored = [id |-> id, v |-> v, own |-> own,
                                      returned |-> "true"]]
    /\ ~WriteLocked
    /\ LET working == InsertOrReplace(store, id, v)
       IN IF own
          THEN store' = CloseDb(store, working) /\ lastWrite' = lastWrite
          ELSE /\ store' = Commit(store, working)
               /\ lastWrite' = [lastWrite EXCEPT ![id] = v]
    /\ UNCHANGED <<food, run, calls, search>>

CallerWrites ==
    \E id \in DOMAIN food, v \in CallerVectors, own \in BOOLEAN :
        StoreEmbedding(id, v, own)

\* the INSERT raises (the database is locked, the table is missing): the
\* except at line 133 returns False; the connection, if the call's own, is
\* closed
StoreEmbeddingFail(id, v, own) ==
    /\ env.faults > 0
    /\ env' = [env EXCEPT !.faults = @ - 1,
                          !.stored = [id |-> id, v |-> v, own |-> own,
                                      returned |-> "false"]]
    /\ store' = IF own THEN CloseDb(store, store) ELSE Rollback(store, store)
    /\ UNCHANGED <<food, run, calls, lastWrite, search>>

\* connect_db at line 119 raises, before the try block: the call raises
StoreEmbeddingRaise(id, v) ==
    /\ env.faults > 0
    /\ env' = [env EXCEPT !.faults = @ - 1,
                          !.stored = [id |-> id, v |-> v, own |-> TRUE,
                                      returned |-> "raised"]]
    /\ UNCHANGED <<food, store, run, calls, lastWrite, search>>

CallerFaults ==
    \E id \in DOMAIN food, v \in CallerVectors :
        \/ \E own \in BOOLEAN : StoreEmbeddingFail(id, v, own)
        \/ StoreEmbeddingRaise(id, v)

\* ---- search ------------------------------------------------------------------
\* vec0 distance of two vectors (one dimension)
Distance(a, b) == IF a >= b THEN a - b ELSE b - a

\* 1 - (distance / 2), counted in halves
Similarity(d) == 2 - d

Vectors(tbl) == {id \in Rowids : tbl[id] # <<>>}
RowDistance(tbl, qv, id) == Distance(qv, tbl[id][1])

\* ORDER BY distance: the orders of the rows ids that ascend in distance
\* (rows at one distance come in any order)
OrderByRowid(tbl, qv, ids) == {Ascending(ids)}
RECURSIVE OrderByDistance(_, _, _)
OrderByDistance(tbl, qv, ids) ==
    IF ids = {} THEN {<<>>}
    ELSE LET nearest == {id \in ids : \A o \in ids :
                            RowDistance(tbl, qv, id) <= RowDistance(tbl, qv, o)}
         IN UNION {{<<id>> \o rest : rest \in OrderByDistance(tbl, qv, ids \ {id})} :
                   id \in nearest}

\* JOIN food f ON fe.rowid = f.fdc_id
JoinFood(f, rows) ==
    LET InFood(id) == id \in DOMAIN f
    IN SelectSeq(rows, InFood)

\* the rows search_by_embedding may fetch: (rowid, similarity)
KnnRows(tbl, qv, limit) ==
    {[j \in 1..Len(rows) |-> <<rows[j], Similarity(RowDistance(tbl, qv, rows[j]))>>] :
        rows \in {Take(o, limit) : o \in OrderByDistance(tbl, qv, Vectors(tbl))}}

\* f.description of the joined row
DescriptionOfRowid(f, id) == id
DescriptionOf(f, id) == f[id]

\* the rows search_food_by_text may fetch: (rowid, description, similarity);
\* the limit bounds the nearest rows before the join, or the joined rows
KnnJoinRows(f, tbl, qv, limit) ==
    {[j \in 1..Len(rows) |->
         <<rows[j], DescriptionOf(f, rows[j]),
           Similarity(RowDistance(tbl, qv, rows[j]))>>] :
        rows \in {JoinFood(f, Take(o, limit)) :
                     o \in OrderByDistance(tbl, qv, Vectors(tbl))}
             \cup {Take(o, limit) :
                     o \in OrderByDistance(tbl, qv, Vectors(tbl) \cap DOMAIN f)}}

QueryTexts == 0..MaxVector
Limits == 0..MaxLimit

\* a search writes nothing a later search reads: one search is followed
NoSearchYet == search.op = "none"

\* the searches the deployment's callers make
Asked(query, limit, m) == <<query, limit, m>> \in env.searches
AskedVector(qv, limit) ==
    \E a \in env.searches : qv = Embed(a[1], a[3]) /\ limit = a[2]

\* search_food_by_text(query, limit, model): no client, or the query is
\* embedded, the store is opened and the KNN query is run
SearchFoodByText(query, limit, m) ==
    /\ NoSearchYet
    /\ Asked(query, limit, m)
    /\ LET qv == Embed(query, m)
       IN IF ~ClientConfigured(env.client)
          THEN search' = [NoSearch EXCEPT !.op = "text", !.qv = qv, !.limit = limit]
          ELSE \E rows \in KnnJoinRows(food, store, qv, limit) :
                 search' = [NoSearch EXCEPT !.op = "text", !.qv = qv, !.limit = limit,
                                           !.result = rows, !.called = TRUE,
                                           !.opened = TRUE, !.queried = TRUE,
                                           !.completed = TRUE]
    /\ UNCHANGED <<env, food, store, run, calls, lastWrite>>

\* generate_embedding returns None (the provider raised; stage "embed"), or
\* the query raises (except at line 486; stage "query"): the empty list
SearchFoodByTextFail(query, limit, m, stage) ==
    /\ NoSearchYet
    /\ Asked(query, limit, m)
    /\ ClientConfigured(env.client)
    /\ search' = [NoSearch EXCEPT !.op = "text", !.qv = Embed(query, m), !.limit = limit,
                                  !.called = TRUE, !.opened = (stage = "query"),
                                  !.queried = (stage = "query")]
    /\ UNCHANGED <<env, food, store, run, calls, lastWrite>>

\* connect_db at line 453 raises: nothing catches it
SearchFoodByTextRaise(query, limit, m) ==
    /\ NoSearchYet
    /\ Asked(query, limit, m)
    /\ ClientConfigured(env.client)
    /\ search' = [NoSearch EXCEPT !.op = "text", !.qv = Embed(query, m), !.limit = limit,
                                  !.called = TRUE, !.raised = TRUE]
    /\ UNCHANGED <<env, food, store, run, calls, lastWrite>>

\* search_by_embedding(query_embedding, limit)
SearchByEmbedding(qv, limit) ==
    /\ NoSearchYet
    /\ AskedVector(qv, limit)
    /\ \E rows \in KnnRows(store, qv, limit) :
         search' = [NoSearch EXCEPT !.op = "embedding", !.qv = qv, !.limit = limit,
                                   !.result = rows, !.opened = TRUE, !.queried = TRUE,
                                   !.completed = TRUE]
    /\ UNCHANGED <<env, food, store, run, calls, lastWrite>>

\* the query raises (except at line 180): the empty list
SearchByEmbeddingFail(qv, limit) ==
    /\ NoSearchYet
    /\ AskedVector(qv, limit)
    /\ search' = [NoSearch EXCEPT !.op = "embedding", !.qv = qv, !.limit = limit,
                                  !.opened = TRUE, !.queried = TRUE]
    /\ UNCHANGED <<env, food, store, run, calls, lastWrite>>

\* connect_db at line 157 raises: nothing catches it
SearchByEmbeddingRaise(qv, limit) ==
    /\ NoSearchYet
    /\ AskedVector(qv, limit)
    /\ search' = [NoSearch EXCEPT !.op = "embedding", !.qv = qv, !.limit = limit,
                                  !.raised = TRUE]
    /\ UNCHANGED <<env, food, store, run, calls, lastWrite>>

\* ---- semantic_food_search (server.py) ------------------------------------------
\* what search_food_by_text(query, limit, model) hands back or raises
TextSearchOutcomes(query, limit, m) ==
    LET qv == Embed(query, m)
        base == [NoSearch EXCEPT !.op = "text", !.qv = qv, !.limit = limit]
    IN IF ~ClientConfigured(env.client) THEN {base}
       ELSE {[base EXCEPT !.result = rows, !.called = TRUE, !.opened = TRUE,
                          !.queried = TRUE, !.completed = TRUE] :
                rows \in KnnJoinRows(food, store, qv, limit)}
            \cup {[base EXCEPT !.called = TRUE],
                  [base EXCEPT !.called = TRUE, !.opened = TRUE, !.queried = TRUE],
                  [base EXCEPT !.called = TRUE, !.raised = TRUE]}

\* food_ids = [result[0] for result in vector_results]
FoodIdsOf(rows) == [j \in 1..Len(rows) |-> rows[j][1]]

\* [food_map[fdc_id] for fdc_id in food_ids if fdc_id in food_map], where
\* food_map holds the foods the session's query found (known)
FoodsInCatalogOrder(food_ids, known) == Ascending(SeqToSet(food_ids) \cap known)
OrderedFoods(food_ids, known) ==
    LET InMap(id) == id \in known
    IN SelectSeq(food_ids, InMap)

\* food_service._format_food_info(food).model_dump()
FormatFoodInfo(f, id) == [id |-> id, name |-> f[id]]

\* the model search_food_by_text takes when none is given
DefaultModel == CHOOSE m \in Models : \A o \in Models : m <= o

\* semantic_food_search(query, limit): one call of search_food_by_text; if it
\* returned rows, the session is asked for the foods of their identifiers
\* (it knows those in known) and the foods are put in the rows' order.  If
\* the search, the session's query or the formatting raises (works = FALSE
\* for the latter two), the except at line 452 returns the empty list.
SemanticFoodSearch(query, limit, known, works) ==
    /\ NoSearchYet
    /\ Asked(query, limit, DefaultModel)
    /\ known \subseteq DOMAIN food
    /\ \E inner \in TextSearchOutcomes(query, limit, DefaultModel) :
         LET reached == ~inner.raised /\ inner.result # <<>>
             failed == inner.raised \/ (reached /\ ~works)
             ids == OrderedFoods(FoodIdsOf(inner.result), known)
         IN search' = [inner EXCEPT
                !.op = "semantic",
                !.tool = [query |-> query, limit |-> limit,
                          calls |-> << <<query, limit>> >>,
                          known |-> known, failed |-> failed,
                          foods |-> IF failed \/ ~reached THEN <<>>
                                    ELSE [j \in 1..Len(ids) |->
                                             FormatFoodInfo(food, ids[j])],
                          raised |-> FALSE]]
    /\ UNCHANGED <<env, food, store, run, calls, lastWrite>>

Searches ==
    \E query \in QueryTexts, limit \in Limits, m \in Models :
        \/ \E known \in SUBSET DOMAIN food, works \in BOOLEAN :
             SemanticFoodSearch(query, limit, known, works)
        \/ SearchFoodByText(query, limit, m)
        \/ \E stage \in {"embed", "query"} : SearchFoodByTextFail(query, limit, m, stage)
        \/ SearchFoodByTextRaise(query, limit, m)
        \/ SearchByEmbedding(Embed(query, m), limit)
        \/ SearchByEmbeddingFail(Embed(query, m), limit)
        \/ SearchByEmbeddingRaise(Embed(query, m), limit)

\* ---- the specification of the backfill --------------------------------------
Starts ==
    \E r \in RunIds, bs \in 1..MaxBatchSize, par \in 1..MaxParallel,
       to \in 0..MaxTimeout, m \in Models :
        \/ \E cli \in BOOLEAN : RunStart(r, bs, par, to, m, cli)
        \/ RunStartFail(r, bs, par, to, m)

\* the steps of a run and of its calls, but for those a passed deadline takes
WorkSteps ==
    \E r \in RunIds :
        \/ RunCount(r) \/ RunCountFail(r) \/ RunLoop(r) \/ RunSelectFail(r)
        \/ SeqStep(r) \/ SeqConnectFail(r) \/ SeqReturn(r)
        \/ ParDone(r)
        \/ \E k \in SubIds :
             \/ PebStart(r, k) \/ PebStartFail(r, k) \/ PebApiFail(r, k)
             \/ PebCommit(r, k) \/ PebCommitFail(r, k) \/ ParCollect(r, k)
             \/ \E n \in 0..ApiBatchSize : PebInsert(r, k, n) \/ PebInsertFail(r, k, n)

DeadlineSteps == \E r \in RunIds : ParTimeout(r) \/ ParExit(r)

RunSteps == WorkSteps \/ DeadlineSteps

Ticks == \E r \in RunIds : Tick(r)

Next == Starts \/ RunSteps \/ Ticks

Spec == Init /\ [][Next]_vars

\* one run beside other writers of the table, over a small catalog; every
\* step of a run or of a call returns, and the clock advances
InitFair ==
    /\ InitCommon
    /\ food = Catalog(FairFoods)
    /\ store \in {Embedded(S, 1) : S \in {{}, {1}}}
    /\ env = Deployment(TRUE, {1}, 1, [r \in RunIds |-> {1}],
                       1..FairFoods, 0..MaxTimeout, MaxCallerWrites, {})
NextFair == Next \/ CallerWrites
Fairness == WF_vars(RunSteps) /\ WF_vars(Ticks)
SpecFair == InitFair /\ [][NextFair]_vars /\ Fairness

\* runs that follow one another in one slot, over a small catalog
InitRerun ==
    /\ InitCommon
    /\ food = Catalog(RerunFoods)
    /\ store = EmptyTable
    /\ env = Deployment(TRUE, {1}, MaxRuns, [r \in RunIds |-> {1}],
                       1..MaxBatchSize, 0..MaxTimeout, 0, {})
SpecRerun == InitRerun /\ [][Next]_vars

\* two runs that overlap, each with its own model, over a small catalog and
\* inside their deadlines
InitTwo ==
    /\ InitCommon
    /\ food = Catalog(TwoFoods)
    /\ store = EmptyTable
    /\ env = Deployment(TRUE, RunIds, 1, [r \in RunIds |-> {r}],
                       {MaxBatchSize}, {MaxTimeout}, 0, {})
NextTwo == Starts \/ WorkSteps
SpecTwo == InitTwo /\ [][NextTwo]_vars

\* one run inside its deadline, beside a store_embedding caller and a search
InitFrame ==
    /\ InitCommon
    /\ food = Catalog(TwoFoods)
    /\ store \in {Embedded(S, 1) : S \in {{}, {1}}}
    /\ env = Deployment(TRUE, {1}, 1, [r \in RunIds |-> {1}], 1..TwoFoods,
                       {MaxTimeout}, MaxCallerWrites, {<<0, MaxLimit, 1>>})
NextFrame == Starts \/ WorkSteps \/ CallerWrites \/ Searches
SpecFrame == InitFrame /\ [][NextFrame]_vars

\* searches over a table that holds vectors for catalog records and for a
\* rowid the catalog does not know
SearchCells == {<<>>} \cup {<<v>> : v \in 0..MaxVector}
InitSearch ==
    /\ InitCommon
    /\ food = Catalog(SearchFoods)
    /\ \E g \in [1..(SearchFoods + 1) -> SearchCells] :
         store = [id \in Rowids |-> IF id <= SearchFoods + 1 THEN g[id] ELSE <<>>]
    /\ \E c \in BOOLEAN :
         env = Deployment(c, {}, 0, [r \in RunIds |-> {}], {}, {}, 0,
                          QueryTexts \X Limits \X Models)
NextSearch == Searches
SpecSearch == InitSearch /\ [][NextSearch]_vars

\* callers of store_embedding alone, over tables empty, partly filled or
\* complete; their calls succeed or fail
InitStore ==
    /\ InitCommon
    /\ food = Catalog(NumFoods)
    /\ store \in {Embedded(S, 1) : S \in {{}, {1}, FoodIds}}
    /\ env = [Deployment(TRUE, {}, 0, [r \in RunIds |-> {}], {}, {},
                         MaxStoreCalls, {}) EXCEPT !.faults = MaxStoreCalls]
NextStore == CallerWrites \/ CallerFaults
SpecStore == InitStore /\ [][NextStore]_vars

\* ==== properties =============================================================

StoredIds == {id \in Rowids : store[id] # <<>>}

\* the step in which the call of sub-batch k of run r ends in failure
FailsIn(r, k) ==
    /\ calls[r][k].st \in {"running", "inserted"}
    /\ calls'[r][k].st = "done"
    /\ calls'[r][k].err

\* the step in which run r receives the result of the call of sub-batch k
ReceivedIn(r, k) ==
    /\ calls[r][k].st = "done"
    /\ \/ calls'[r][k].st = "none"
       \/ ~calls[r][k].seen /\ calls'[r][k].seen

\* C1: whatever writes were committed, by the workers of one run or by runs
\* that overlap, the table holds at most one vector per rowid, and a rowid
\* that was written holds the vector of its latest committed write.
C1_OneVectorPerId ==
    \A id \in Rowids :
        /\ Len(store[id]) <= 1
        /\ lastWrite[id] # 0 => store[id] = <<lastWrite[id]>>

\* two runs with different models have both committed a vector for one rowid
C1_Witness ==
    \E id \in Rowids :
        /\ id \in run[1].gained /\ id \in run[2].gained
        /\ run[1].model # run[2].model
        /\ Len(store[id]) = 1

\* C2: when a sub-batch fails in process_embedding_batch (provider error, a
\* store write or the commit raising), the call returns 0, the step leaves the
\* table exactly as it was, every record of the sub-batch is still missing,
\* and the run's total_processed does not grow, neither in that step nor when
\* the run receives the result.
C2_FailedSubBatchStep ==
    \A r \in RunIds, k \in SubIds :
        /\ FailsIn(r, k) =>
             /\ calls'[r][k].res = 0
             /\ store' = store
             /\ SeqToSet(Batch(r, k)) \subseteq MissingIds(food', store')
             /\ run'[r].total_processed = run[r].total_processed
        /\ (ReceivedIn(r, k) /\ calls[r][k].err) =>
             run'[r].total_processed = run[r].total_processed
\* C2, over every step: [C2_FailedSubBatchStep]_vars
C2_FailedSubBatchCommitsNothing == [][C2_FailedSubBatchStep]_vars

\* a failed sub-batch was received by a run in which another one committed
C2_Witness ==
    \E r \in RunIds, k \in SubIds :
        /\ calls[r][k].st = "done" /\ calls[r][k].err /\ calls[r][k].seen
        /\ run[r].total_processed > 0
        /\ SeqToSet(Batch(r, k)) \subseteq MissingIds(food, store)

\* C5: a run that finds no record lacking an embedding (the count returns 0)
\* ends with processed = 0 and target = 0, without a select, without a
\* provider call and without a store write.
C5_NothingMissing ==
    \A r \in RunIds :
        (run[r].counted = 1 /\ ~run[r].anyFail
            /\ MissingIds(food, run[r].store0) = {}) =>
            /\ run[r].pc = "done" /\ run[r].outcome = "nothing"
            /\ run[r].total_processed = 0 /\ run[r].total_missing = 0
            /\ ~run[r].didSelect
            /\ run[r].attempted = {} /\ run[r].submitted = {}
            /\ store = run[r].store0

C5_Witness ==
    \E r \in RunIds :
        /\ run[r].counted = 1 /\ ~run[r].anyFail
        /\ MissingIds(food, run[r].store0) = {}
        /\ run[r].pc = "done"

\* C6: without a configured provider client a run ends at once as a no-op: it
\* does not raise, opens no connection, runs no count and no select, calls
\* the provider for nothing and leaves the table as it found it.
C6_UnconfiguredNoOp ==
    \A r \in RunIds :
        (~env.client /\ run[r].pc # "idle") =>
            /\ run[r].pc = "done" /\ run[r].outcome = "noop"
            /\ ~run[r].opened /\ ~run[r].connOpen
            /\ run[r].counted = 0 /\ ~run[r].didSelect
            /\ run[r].attempted = {} /\ run[r].submitted = {}
            /\ store = run[r].store0
            /\ \A k \in SubIds : calls[r][k].st = "none"

C6_Witness ==
    \E r \in RunIds : ~env.client /\ run[r].pc = "done" /\ StoredIds # {}

\* C7: a run in which every provider call and every store call succeeds and
\* no deadline check fires ends with processed = target = N, the number of
\* records missing at its start, with every catalog record holding a vector,
\* after dispatching the sub-batches of N div batch_size full fetch windows
\* and of one window of N mod batch_size records.
C7_CleanRunCompletes ==
    \A r \in RunIds :
        (run[r].pc = "done" /\ run[r].counted = 1
            /\ ~run[r].anyFail /\ ~run[r].timedOut) =>
            LET N == Cardinality(MissingIds(food, run[r].store0))
                bs == run[r].batch_size
            IN /\ run[r].total_processed = N
               /\ run[r].total_missing = N
               /\ run[r].outcome \in {"report", "nothing"}
               /\ \A id \in DOMAIN food : Len(store[id]) = 1
               /\ run[r].gained = MissingIds(food, run[r].store0)
               /\ run[r].dispatched =
                    (N \div bs) * Ceil(bs, ApiBatchSize) + Ceil(N % bs, ApiBatchSize)

\* a clean parallel run over a window of more than one sub-batch, the last
\* one shorter than api_batch_size
C7_Witness ==
    \E r \in RunIds :
        /\ run[r].pc = "done" /\ run[r].counted = 1
        /\ ~run[r].anyFail /\ ~run[r].timedOut
        /\ run[r].parallel > 1
        /\ run[r].dispatched > 1
        /\ run[r].total_processed = run[r].dispatched * ApiBatchSize - 1

\* C8 (as claimed): a failing sub-batch never aborts the run: unless a
\* deadline fired, a run ends only after every sub-batch of its fetch window
\* was executed, with total_processed counting the committed records, and it
\* does not raise.
C8_SubBatchFailureContained ==
    \A r \in RunIds :
        (run[r].pc = "done" /\ run[r].didSelect /\ ~run[r].timedOut) =>
            /\ SeqToSet(run[r].foods) \subseteq run[r].attempted
            /\ run[r].total_processed = Cardinality(run[r].gained)
            /\ run[r].outcome # "raised"

\* C3 (as claimed): an identifier whose vector an earlier run committed is
\* never submitted to the provider by a later run, however that run is started.
C3_NoResubmission ==
    \A r \in RunIds : run[r].submitted \cap run[r].prior = {}

\* run r was given timeout = 0 and counted records that lack a vector
C4_ZeroTimeoutCase(r) ==
    run[r].timeout = 0 /\ run[r].counted = 1 /\ run[r].total_missing > 0

\* C4: with timeout = 0 and records missing, a run ends, without raising and
\* without taking the error path, with total_processed < total_missing, in
\* either mode.
C4_ZeroTimeout ==
    /\ [](\A r \in RunIds :
            (C4_ZeroTimeoutCase(r) /\ run[r].pc = "done") =>
                /\ run[r].outcome = "report"
                /\ run[r].total_processed < run[r].total_missing)
    /\ \A r \in RunIds :
            (C4_ZeroTimeoutCase(r) /\ run[r].pc # "done") ~> (run[r].pc = "done")

C4_Witness ==
    \E r \in RunIds :
        /\ C4_ZeroTimeoutCase(r) /\ run[r].pc = "done"
        /\ run[r].parallel > 1 /\ run[r].timedOut

\* C9: every run that was started ends.
C9_RunTerminates ==
    \A r \in RunIds : (run[r].pc \notin {"idle", "done"}) ~> (run[r].pc = "done")

\* a run whose select found the table complete before total_processed had
\* reached total_missing: another writer stored the vector of a record the run
\* had counted
C9_Witness ==
    \E r \in RunIds :
        /\ run[r].pc = "done" /\ run[r].outcome = "report" /\ ~run[r].timedOut
        /\ run[r].didSelect /\ run[r].foods = <<>>
        /\ run[r].total_processed < run[r].total_missing

\* C10: in the list a search returns, each result is at most as far from the
\* query as the next one, and its similarity is at least the next one's.
C10_ResultsOrdered ==
    \A j \in 1..(Len(search.result) - 1) :
        LET a == search.result[j]
            b == search.result[j + 1]
        IN /\ RowDistance(store, search.qv, a[1]) <= RowDistance(store, search.qv, b[1])
           /\ a[Len(a)] >= b[Len(b)]

\* a text search returned two results, the nearer one with the larger rowid
C10_Witness ==
    /\ search.op = "text"
    /\ Len(search.result) >= 2
    /\ search.result[1][1] > search.result[2][1]
    /\ search.result[1][3] > search.result[2][3]

\* stored vectors whose rowid the catalog does not hold
Orphans == Vectors(store) \ DOMAIN food

\* C11: a text search with limit k >= 1 returns at most k results; one that
\* ran its query returns fewer than k only if the table holds fewer than k
\* vectors or rows without a catalog record were dropped, and never fewer than
\* min(k, number of vectors) less the number of such rows.
C11_AtMostK ==
    (search.op = "text" /\ search.limit >= 1) =>
        /\ Len(search.result) <= search.limit
        /\ search.completed =>
             /\ Len(search.result) >=
                  Min(search.limit, Cardinality(Vectors(store))) - Cardinality(Orphans)
             /\ Len(search.result) < search.limit =>
                  \/ Cardinality(Vectors(store)) < search.limit
                  \/ Orphans # {}

\* a search for 2 over a table of at least 2 vectors returned 1 result
C11_Witness ==
    /\ search.op = "text" /\ search.completed
    /\ search.limit = 2 /\ Len(search.result) = 1
    /\ Cardinality(Vectors(store)) >= 2

\* C12: every result of a text search names a rowid that holds a vector and
\* has a catalog record, and carries that record's description; a stored
\* rowid without a catalog record is in no result.
C12_ResultsJoined ==
    search.op = "text" =>
        \A j \in 1..Len(search.result) :
            LET row == search.result[j]
            IN /\ row[1] \in Vectors(store)
               /\ row[1] \in DOMAIN food
               /\ row[1] \notin Orphans
               /\ row[2] = food[row[1]]

\* a search returned a result although a rowid without a catalog record is
\* nearer to the query
C12_Witness ==
    /\ search.op = "text" /\ search.completed /\ ~search.raised
    /\ Len(search.result) >= 1
    /\ \E o \in Orphans :
         RowDistance(store, search.qv, o)
            < RowDistance(store, search.qv, search.result[1][1])

\* C13: without a configured provider client a text search returns the empty
\* list: it does not raise, calls the provider for nothing, opens no
\* connection and issues no query.
C13_UnconfiguredSearch ==
    (search.op = "text" /\ ~env.client) =>
        /\ search.result = <<>> /\ ~search.raised
        /\ ~search.called /\ ~search.opened /\ ~search.queried

\* such a search over a table that holds the vector of a catalog record
C13_Witness ==
    /\ search.op = "text" /\ ~env.client /\ search.limit >= 1
    /\ Vectors(store) \cap DOMAIN food # {}

\* C14 (as claimed): a text search never raises to its caller, and returns
\* the complete query result or, when the provider call, the opening of the
\* store or the query failed, the empty list.
C14_SearchContained ==
    search.op = "text" =>
        /\ ~search.raised
        /\ search.completed \/ search.result = <<>>

\* the step starts a run (through the command, setup_vector_db runs first)
StartsRun == \E r \in RunIds : run'[r].runNo # run[r].runNo

\* C15: a step of a backfill run changes the table only by putting one vector
\* under a rowid the run selected, and a run selects only rowids that lack a
\* vector; no step of a run empties a rowid or changes the catalog; a search
\* changes neither the table nor the catalog.  The table is dropped only by
\* setup_vector_db, which the command runs before it starts a run, and is
\* otherwise written only by a caller of store_embedding.
C15_FrameStep ==
    /\ food' = food
    /\ StartsRun => store' \in {store, SetupVectorDb(store)}
    /\ search' # search => store' = store
    /\ \A r \in RunIds :
         (run[r].pc = "loop" /\ run'[r].pc \in {"seq", "par"}) =>
             SeqToSet(run'[r].foods) \subseteq MissingIds(food, store)
    /\ (~StartsRun /\ env'.writes = env.writes) =>
         \A id \in Rowids :
             store'[id] # store[id] =>
                 /\ Len(store'[id]) = 1
                 /\ \E r \in RunIds :
                      /\ run[r].pc \notin {"idle", "done"}
                      /\ id \in SeqToSet(run[r].foods)
C15_BackfillAndSearchFrame == [][C15_FrameStep]_vars

\* a run has stored the vectors of the whole catalog, a caller of
\* store_embedding has written, and a search has returned results
C15_Witness ==
    /\ run[1].pc = "done" /\ run[1].gained = DOMAIN food
    /\ env.writes = 0
    /\ search.op = "text" /\ search.completed /\ Len(search.result) >= 1

\* the place of identifier id in the rows a search returned (0: not there)
PlaceOf(id, rows) ==
    IF \E j \in 1..Len(rows) : rows[j][1] = id
    THEN CHOOSE j \in 1..Len(rows) : rows[j][1] = id
    ELSE 0

\* C16: semantic_food_search calls search_food_by_text exactly once, with its
\* own query and limit, and does not raise; the foods it returns are the
\* foods of the search's rows that the catalog session holds, each once, in
\* the rows' relative order; it returns the empty list when the search
\* returned none or something raised.
C16_SemanticSearch ==
    search.op = "semantic" =>
        LET t == search.tool
            rows == search.result
        IN /\ t.calls = << <<t.query, t.limit>> >>
           /\ ~t.raised
           /\ (rows = <<>> \/ search.raised \/ t.failed) => t.foods = <<>>
           /\ \A j \in 1..Len(t.foods) :
                /\ PlaceOf(t.foods[j].id, rows) > 0
                /\ t.foods[j].id \in t.known
                /\ t.foods[j].name = food[t.foods[j].id]
           /\ \A i, j \in 1..Len(t.foods) :
                i < j => PlaceOf(t.foods[i].id, rows) < PlaceOf(t.foods[j].id, rows)
           /\ (~search.raised /\ ~t.failed) =>
                \A j \in 1..Len(rows) :
                    rows[j][1] \in t.known =>
                        \E i \in 1..Len(t.foods) : t.foods[i].id = rows[j][1]

\* the tool returned two foods, the larger identifier first
C16_Witness ==
    /\ search.op = "semantic"
    /\ Len(search.tool.foods) = 2
    /\ search.tool.foods[1].id > search.tool.foods[2].id

\* C17: within one run no record identifier is submitted to the provider a
\* second time: the records of a failed sub-batch are not selected and
\* submitted again by a later fetch window of the same run.
C17_SubmitStep ==
    \A r \in RunIds, k \in SubIds :
        (calls[r][k].st \in {"none", "queued"} /\ calls'[r][k].st = "running") =>
            SeqToSet(SubBatch(run'[r].foods, k)) \cap run[r].submitted = {}
C17_NoRetryInRun == [][C17_SubmitStep]_vars

C20_PoolBound ==
    \A r \in RunIds :
        (run[r].parallel > 1 /\ run[r].pc \in {"par", "parexit"}) =>
            /\ run[r].pool = run[r].parallel
            /\ Cardinality(Executing(r)) <= run[r].parallel

\* every worker of the pool is executing while a sub-batch is still queued
C20_Witness ==
    \E r \in RunIds :
        /\ run[r].parallel > 1 /\ run[r].pc = "par"
        /\ Cardinality(Executing(r)) = run[r].parallel
        /\ \E k \in SubIds : calls[r][k].st = "queued"

\* run r is given parallel <= 1 and has been started
Sequential(r) == run[r].pc # "idle" /\ run[r].parallel <= 1

\* C21: a run with parallel <= 1 is sequential in all of its fetch windows:
\* it creates no worker pool, never has more than one sub-batch in flight,
\* and starts a sub-batch's call only at a moment when the deadline is not
\* exceeded and no earlier check of the run has found it exceeded.
C21_SequentialState ==
    \A r \in RunIds :
        Sequential(r) =>
            /\ run[r].pool = 0
            /\ run[r].pc \notin {"par", "parexit"}
            /\ Cardinality(Used(r)) <= 1
            /\ \A k \in SubIds : calls[r][k].st # "queued"
C21_SequentialStep ==
    \A r \in RunIds, k \in SubIds :
        (Sequential(r) /\ calls[r][k].st = "none" /\ calls'[r][k].st = "running") =>
            /\ run[r].e <= run[r].timeout
            /\ ~run[r].timedOut
            /\ Used(r) = {}
C21_SequentialMode == [](C21_SequentialState) /\ [][C21_SequentialStep]_vars

\* a sequential run that committed a sub-batch, then found the deadline
\* exceeded and ended with records still missing
C21_Witness ==
    \E r \in RunIds :
        /\ Sequential(r) /\ run[r].pc = "done" /\ run[r].timedOut
        /\ run[r].total_processed > 0
        /\ run[r].total_processed < run[r].total_missing

\* the sequences of ss, one after the other
RECURSIVE Flatten(_)
Flatten(ss) == IF ss = <<>> THEN <<>> ELSE Head(ss) \o Flatten(Tail(ss))

\* the rowids a step writes a vector for
Written == {id \in Rowids : store'[id] # store[id] /\ store'[id] # <<>>}

\* C22: the sub-batches of a fetch window of n records are ceil(n / 100)
\* consecutive slices, pairwise disjoint, that together are the window; each
\* has api_batch_size records but the last, which has between 1 and
\* api_batch_size; the calls of a window are one per slice, and a step that
\* changes the table is the commit of one call and writes records of its
\* slice only.
C22_WindowPartition ==
    \A r \in RunIds :
        LET foods == run[r].foods
            bs == Batches(foods)
        IN /\ Len(bs) * ApiBatchSize >= Len(foods)
           /\ (Len(bs) - 1) * ApiBatchSize < Len(foods) \/ foods = <<>>
           /\ Flatten(bs) = foods
           /\ \A k \in 1..Len(bs) :
                /\ Len(bs[k]) \in 1..ApiBatchSize
                /\ k < Len(bs) => Len(bs[k]) = ApiBatchSize
                /\ \A j \in 1..Len(bs[k]) : bs[k][j] = foods[(k - 1) * ApiBatchSize + j]
           /\ \A k, l \in 1..Len(bs) :
                k # l => SeqToSet(bs[k]) \cap SeqToSet(bs[l]) = {}
           /\ Used(r) \subseteq 1..Len(bs)
           /\ run[r].pc = "par" => Used(r) = 1..Len(bs)
C22_CommitStep ==
    Written # {} =>
        \E r \in RunIds, k \in SubIds :
            /\ calls[r][k].st = "inserted" /\ calls'[r][k].st = "done"
            /\ Written \subseteq SeqToSet(Batches(run[r].foods)[k])
            /\ \A q \in RunIds, l \in SubIds :
                 <<q, l>> # <<r, k>> => calls'[q][l] = calls[q][l]
C22_SubBatches == [](C22_WindowPartition) /\ [][C22_CommitStep]_vars

\* a parallel window of three sub-batches, the last one shorter, all committed
C22_Witness ==
    \E r \in RunIds :
        /\ run[r].pc = "par" /\ NumBatches(run[r].foods) = 3
        /\ Len(run[r].foods) % ApiBatchSize # 0
        /\ \A k \in 1..3 :
             calls[r][k].st = "done" /\ calls[r][k].res = Len(Batch(r, k))

\* C23: a run with a configured client runs the count query exactly once,
\* before its first select and never after it, and its target stays the
\* value counted then: the loop goes on while total_processed is below it.
C23_CountState ==
    \A r \in RunIds :
        /\ run[r].counted <= 1
        /\ (env.client /\ run[r].pc \notin {"idle", "count"}
               /\ run[r].outcome # "raised") => run[r].counted = 1
        /\ run[r].didSelect =>
             /\ run[r].counted = 1
             /\ run[r].total_missing = CountMissing(food, run[r].store0)
        /\ (run[r].pc = "done" /\ run[r].outcome = "report"
               /\ ~run[r].timedOut /\ run[r].foods # <<>>) =>
             run[r].total_processed >= run[r].total_missing
C23_CountStep ==
    \A r \in RunIds :
        /\ run'[r].counted # run[r].counted =>
             \/ run'[r].runNo # run[r].runNo
             \/ run[r].pc = "count" /\ ~run[r].didSelect
        /\ run'[r].total_missing # run[r].total_missing =>
             \/ run'[r].runNo # run[r].runNo
             \/ run[r].pc = "count"
C23_CountOnce == [](C23_CountState) /\ [][C23_CountStep]_vars

\* a run that went through three fetch windows or more and reached its target
C23_Witness ==
    \E r \in RunIds :
        /\ run[r].pc = "done" /\ run[r].counted = 1
        /\ run[r].batch_size = 1 /\ run[r].total_missing >= 3
        /\ run[r].total_processed = run[r].total_missing

\* C24 (as claimed): a call of process_embedding_batch that has returned
\* gives either the length of its sub-batch or 0, never a count in between,
\* whatever the number of vectors in the provider's response.
C24_AllOrNothing ==
    \A r \in RunIds, k \in SubIds :
        calls[r][k].st = "done" =>
            calls[r][k].res \in {0, Len(Batch(r, k))}

\* C25: the commit of a sub-batch stores, for every position j of the
\* provider's response, the vector of the text at position j under the
\* identifier at position j, and writes no other rowid.
C25_CommitStep ==
    \A r \in RunIds, k \in SubIds :
        (calls[r][k].st = "inserted" /\ calls'[r][k].st = "done" /\ ~calls'[r][k].err) =>
            LET batch == SubBatch(run[r].foods, k)
                n == calls[r][k].n
            IN /\ calls'[r][k].res = n
               /\ \A j \in 1..n :
                    store'[batch[j]] = <<Embed(food[batch[j]], run[r].model)>>
               /\ Written \subseteq {batch[j] : j \in 1..n}
C25_OwnVector == [][C25_CommitStep]_vars

\* a call committed a sub-batch of two records, each under its own vector
C25_Witness ==
    \E r \in RunIds, k \in SubIds :
        /\ calls[r][k].st = "done" /\ calls[r][k].res = 2
        /\ \A j \in 1..2 :
             store[Batch(r, k)[j]] = <<Embed(food[Batch(r, k)[j]], run[r].model)>>

\* the identifiers both runs have submitted to the provider
BothSubmitted == run[1].submitted \cap run[2].submitted

\* C26 (as claimed): when two overlapping runs have submitted the same identifier, the
\* table holds at most one vector for it, exactly one once both have
\* committed it, and the total_processed of each run is at most its own
\* total_missing.
C26_OverlapOutcome ==
    \A id \in BothSubmitted :
        /\ Len(store[id]) <= 1
        /\ (id \in run[1].gained /\ id \in run[2].gained) => Len(store[id]) = 1
        /\ \A r \in RunIds : run[r].total_processed <= run[r].total_missing

\* C27: a sub-batch call holds a connection of its own exactly while it
\* executes, on whatever path it ends; the run holds its read connection
\* beside them while it works; a run that has ended has no connection open,
\* neither its own nor one of its calls.
C27_Connections ==
    \A r \in RunIds :
        /\ \A k \in SubIds :
             calls[r][k].conn <=> calls[r][k].st \in {"running", "inserted"}
        /\ run[r].pc \in {"count", "loop", "seq", "seqcall", "par", "parexit"} =>
             run[r].connOpen
        /\ run[r].pc \in {"idle", "done"} =>
             /\ ~run[r].connOpen
             /\ \A k \in SubIds : ~calls[r][k].conn

\* a parallel run has ended after one sub-batch failed and another committed
C27_Witness ==
    \E r \in RunIds :
        /\ run[r].pc = "done" /\ run[r].parallel > 1
        /\ run[r].anyFail /\ run[r].gained # {}
        /\ run[r].attempted \ run[r].gained # {}

\* the sum of the results of the calls S of run r
RECURSIVE SumRes(_, _)
SumRes(r, S) ==
    IF S = {} THEN 0
    ELSE LET k == CHOOSE x \in S : TRUE
         IN calls[r][k].res + SumRes(r, S \ {k})

\* the calls of run r whose result the run has received
Collected(r) == {k \in Used(r) : calls[r][k].seen /\ calls[r][k].st = "done"}

\* C28: in a parallel fetch window, in whatever order the sub-batches have
\* completed and been collected, the table and total_processed are
\* determined by the sub-batches' outcomes alone: a record of the window
\* holds its vector exactly if its sub-batch committed it, and
\* total_processed is its value before the window plus the results collected.
C28_OrderFree ==
    \A r \in RunIds :
        run[r].pc = "par" =>
            /\ run[r].total_processed =
                 Cardinality(run[r].gained \ SeqToSet(run[r].foods))
                     + SumRes(r, Collected(r))
            /\ \A k \in Used(r) :
                 \A j \in 1..Len(Batch(r, k)) :
                     store[Batch(r, k)[j]] =
                         IF calls[r][k].st = "done" /\ ~calls[r][k].err
                               /\ j <= calls[r][k].n
                         THEN <<Embed(food[Batch(r, k)[j]], run[r].model)>>
                         ELSE <<>>

\* the third sub-batch has committed and been collected, then the second,
\* while the first is still executing
C28_Witness ==
    \E r \in RunIds :
        /\ run[r].pc = "par"
        /\ calls[r][1].st = "running"
        /\ Collected(r) = {2, 3}
        /\ run[r].total_processed = calls[r][2].res + calls[r][3].res
        /\ calls[r][2].res > 0 /\ calls[r][3].res > 0

C30_StoredIsCommitted ==
    env.stored.own =>
        /\ env.stored.returned # "raised"
        /\ env.stored.returned = "true" => store[env.stored.id] = <<env.stored.v>>

====
